---- MODULE Spec2Model ----
(***************************************************************************)
(* Model of the Mood-art-generator backend: routes/artRoutes.js            *)
(* (src/unnamed/part_001), routes/authRoutes.js (src/unnamed/part_000) and *)
(* the Mongoose schemas models/User.js, models/Art.js                      *)
(* (src/unnamed/part_002).                                                 *)
(*                                                                         *)
(* Text that the code inspects character by character (prompts, moods,     *)
(* e-mail addresses) is a sequence of one-character strings.  Text that    *)
(* the code only passes along (URLs, response messages) is a TLA+ string.  *)
(***************************************************************************)
EXTENDS Integers, Sequences, FiniteSets

VARIABLES env, users, arts, reqs

vars == <<env, users, arts, reqs>>

----------------------------------------------------------------------------
(* Bounds of the model *)

\* requests handled one after the other in Spec
MaxSeq == 1
\* concurrent generate/collaborate requests in SpecVote
MaxGen == 1
\* concurrent vote requests in SpecVote
MaxVotes == 3
\* concurrent signup/login requests in SpecAuth
MaxAuth == 2
\* requests on the optional-auth endpoints, one after the other, in SpecAccess
MaxAccess == 2

----------------------------------------------------------------------------
(* JavaScript values *)

Undefined == [t |-> "undefined"]
Str(s) == [t |-> "string", s |-> s]
Num(n) == [t |-> "number", n |-> n]
Arr(a) == [t |-> "array", a |-> a]
\* a string the code never looks into (an image reference)
Url(u) == [t |-> "url", u |-> u]
\* Object.prototype.constructor, the function Object
ObjectFunction == [t |-> "function"]
\* Object.prototype
ObjectPrototype == [t |-> "object"]

\* ToBoolean: undefined, "" and 0 are falsy
Truthy(v) ==
    CASE v.t = "undefined" -> FALSE
      [] v.t = "string" -> v.s # <<>>
      [] v.t = "number" -> v.n # 0
      [] OTHER -> TRUE

DIGITS == <<"0", "1", "2", "3", "4", "5", "6", "7", "8", "9">>
S_undefined == <<"u", "n", "d", "e", "f", "i", "n", "e", "d">>

\* ToString as applied by template literals and by += on a string
ToStr(v) ==
    CASE v.t = "undefined" -> S_undefined
      [] v.t = "string" -> v.s
      [] v.t = "number" -> <<DIGITS[v.n + 1]>>

UPPER == <<"A", "B", "C", "D", "E", "F", "G", "H", "I", "J", "K", "L", "M", "N", "O", "P", "Q", "R", "S", "T", "U", "V", "W", "X", "Y", "Z">>
LOWER == <<"a", "b", "c", "d", "e", "f", "g", "h", "i", "j", "k", "l", "m", "n", "o", "p", "q", "r", "s", "t", "u", "v", "w", "x", "y", "z">>

LowerChar(c) ==
    IF \E k \in 1..26 : UPPER[k] = c
    THEN LOWER[CHOOSE k \in 1..26 : UPPER[k] = c]
    ELSE c

RECURSIVE ToLowerCase(_)
\* String.prototype.toLowerCase
ToLowerCase(s) ==
    IF s = <<>> THEN <<>> ELSE <<LowerChar(Head(s))>> \o ToLowerCase(Tail(s))

WhiteSpace == {" ", "\t", "\n"}

\* String.prototype.trim
Trim(s) ==
    LET keep == {i \in 1..Len(s) : s[i] \notin WhiteSpace}
    IN  IF keep = {} THEN <<>>
        ELSE LET lo == CHOOSE i \in keep : \A j \in keep : i <= j
                 hi == CHOOSE i \in keep : \A j \in keep : j <= i
             IN  SubSeq(s, lo, hi)

\* String.prototype.split(',')[0]
SplitCommaFirst(s) ==
    LET commas == {i \in 1..Len(s) : s[i] = ","}
    IN  IF commas = {} THEN s
        ELSE SubSeq(s, 1, (CHOOSE i \in commas : \A j \in commas : i <= j) - 1)

RECURSIVE Join(_, _)
\* Array.prototype.join
Join(a, sep) ==
    IF a = <<>> THEN <<>>
    ELSE IF Len(a) = 1 THEN a[1]
    ELSE a[1] \o sep \o Join(Tail(a), sep)

----------------------------------------------------------------------------
(* routes/artRoutes.js: prompt composition of POST /api/art *)

S_CommaSp == <<",", " ">>
S_In == <<",", " ", "i", "n", " ">>
S_Style == <<" ", "s", "t", "y", "l", "e">>
S_WithColors == <<",", " ", "w", "i", "t", "h", " ", "c", "o", "l", "o", "r", "s", " ">>

\* let artPrompt = mood; if (prompt) artPrompt = `${mood ? mood + ', ' : ''}${prompt}`
BasePrompt(mood, prompt) ==
    IF Truthy(prompt)
    THEN Str((IF Truthy(mood) THEN ToStr(mood) \o S_CommaSp ELSE <<>>) \o ToStr(prompt))
    ELSE mood

\* if (style) artPrompt += `, in ${style} style`
WithStyle(p, style) ==
    IF Truthy(style) THEN Str(ToStr(p) \o S_In \o ToStr(style) \o S_Style) ELSE p

\* if (colors && colors.length > 0) artPrompt += `, with colors ${colors.join(', ')}`
WithColors(p, colors) ==
    IF Truthy(colors) /\ Len(colors.a) > 0
    THEN Str(ToStr(p) \o S_WithColors \o Join(colors.a, S_CommaSp))
    ELSE p

ComposePrompt(mood, prompt, style, colors) ==
    WithColors(WithStyle(BasePrompt(mood, prompt), style), colors)

S_CollabPrefix == <<"C", "o", "l", "l", "a", "b", "o", "r", "a", "t", "i", "v", "e", " ", "a", "r", "t", " ", "b", "l", "e", "n", "d", "i", "n", "g", " ">>
S_And == <<" ", "a", "n", "d", " ">>
S_Amp == <<" ", "&", " ">>

\* `Collaborative art blending ${mood1} and ${mood2}`
CollabPrompt(mood1, mood2) ==
    Str(S_CollabPrefix \o ToStr(mood1) \o S_And \o ToStr(mood2))

\* `${mood1} & ${mood2}`
CollabMood(mood1, mood2) == Str(ToStr(mood1) \o S_Amp \o ToStr(mood2))

----------------------------------------------------------------------------
(* routes/artRoutes.js: generateArtFromAPI *)

MSG_INVALID == "Art generation prompt cannot be empty or invalid."
MSG_AUTH == "AI API authentication failed. Check your ART_API_TOKEN."
MSG_RATE == "AI API rate limit exceeded. Please try again later."
MSG_CONNECT == "Could not connect to AI API. Check ART_API_URL or your internet connection."
MSG_GENERIC == "Failed to generate art from external service or upload image."

\* (variant used to test C8: the blank-after-trim test left out)
InvalidPromptLax(prompt) == ~Truthy(prompt) \/ prompt.t # "string"

\* if (!prompt || typeof prompt !== 'string' || prompt.trim() === '') throw

InvalidPrompt(prompt) ==
    ~Truthy(prompt) \/ prompt.t # "string" \/ Trim(prompt.s) = <<>>

\* the five configuration values read at line 30
ConfigKeys == {"ART_API_URL", "ART_API_TOKEN", "cloud_name", "api_key", "api_secret"}

\* if (!ART_API_URL || !ART_API_TOKEN || !cloudinary.config().cloud_name || ...)
UseMock(e) == \E k \in ConfigKeys : ~Truthy(e[k])

K_happy == <<"h", "a", "p", "p", "y">>
K_sad == <<"s", "a", "d">>
K_calm == <<"c", "a", "l", "m">>
K_excited == <<"e", "x", "c", "i", "t", "e", "d">>
K_angry == <<"a", "n", "g", "r", "y">>
K_inspired == <<"i", "n", "s", "p", "i", "r", "e", "d">>
K_mixed == <<"m", "i", "x", "e", "d">>

URL_HAPPY == "https://placehold.co/600x450/FFD700/000000?text=Happy+Art"
URL_SAD == "https://placehold.co/600x450/87CEEB/FFFFFF?text=Sad+Art"
URL_CALM == "https://placehold.co/600x450/90EE90/000000?text=Calm+Art"
URL_EXCITED == "https://placehold.co/600x450/FF6347/FFFFFF?text=Excited+Art"
URL_ANGRY == "https://placehold.co/600x450/DC143C/FFFFFF?text=Angry+Art"
URL_INSPIRED == "https://placehold.co/600x450/BA55D3/FFFFFF?text=Inspired+Art"
URL_MIXED == "https://placehold.co/600x450/CCCCCC/000000?text=Mixed+Art"
URL_DEFAULT == "https://placehold.co/600x450/A9A9A9/FFFFFF?text=Generated+Art"

\* mockImageUrls, as the set of its (key, reference) entries but 'default'
mockImageUrls ==
    { <<K_happy, URL_HAPPY>>, <<K_sad, URL_SAD>>, <<K_calm, URL_CALM>>,
      <<K_excited, URL_EXCITED>>, <<K_angry, URL_ANGRY>>,
      <<K_inspired, URL_INSPIRED>>, <<K_mixed, URL_MIXED>> }

\* prompt.toLowerCase().split(',')[0].trim()
cleanedPrompt(s) == Trim(SplitCommaFirst(ToLowerCase(s)))

K_constructor == <<"c", "o", "n", "s", "t", "r", "u", "c", "t", "o", "r">>
K_proto == <<"_", "_", "p", "r", "o", "t", "o", "_", "_">>

\* mockImageUrls[cleanedPrompt] || mockImageUrls['default']
\* mockImageUrls is an object literal, so that a property read also finds
\* what it inherits from Object.prototype.  Of the inherited names only
\* constructor and __proto__ are all lower case, as cleanedPrompt is; both
\* values are truthy.  The own key 'default' maps to the default reference.
MockLookup(key) ==
    IF \E e \in mockImageUrls : e[1] = key
    THEN Url((CHOOSE e \in mockImageUrls : e[1] = key)[2])
    ELSE IF key = K_constructor THEN ObjectFunction
    ELSE IF key = K_proto THEN ObjectPrototype
    ELSE Url(URL_DEFAULT)

SelectMock(s) == MockLookup(cleanedPrompt(s))

\* an error thrown by axios.post or cloudinary.uploader.upload:
\* status is error.response.status (0: no response), code is error.code
Err(status, code) == [status |-> status, code |-> code]

\* (variant used to test C6: the 429 branch left out)
ClassifyNoRateLimit(error) ==
    IF error.status = 401 THEN MSG_AUTH
    ELSE IF error.code \in {"ECONNREFUSED", "ENOTFOUND"} THEN MSG_CONNECT
    ELSE MSG_GENERIC

\* the catch block of generateArtFromAPI, lines 83-96
Classify(error) ==
    IF error.status = 401 THEN MSG_AUTH
    ELSE IF error.status = 429 THEN MSG_RATE
    ELSE IF error.code \in {"ECONNREFUSED", "ENOTFOUND"} THEN MSG_CONNECT
    ELSE MSG_GENERIC

\* uploadResult.secure_url
CLOUD_URL == "https://res.cloudinary.com/demo/image/upload/mood_art_generator/art.png"

----------------------------------------------------------------------------
(* models/Art.js *)

S_Happy == <<"H", "a", "p", "p", "y">>
S_Sad == <<"S", "a", "d">>
S_Calm == <<"C", "a", "l", "m">>
S_Excited == <<"E", "x", "c", "i", "t", "e", "d">>
S_Angry == <<"A", "n", "g", "r", "y">>
S_Inspired == <<"I", "n", "s", "p", "i", "r", "e", "d">>
S_Mixed == <<"M", "i", "x", "e", "d">>
S_Abstract == <<"A", "b", "s", "t", "r", "a", "c", "t">>

\* artSchema.mood.enum.values
MoodEnum == {S_Happy, S_Sad, S_Calm, S_Excited, S_Angry, S_Inspired, S_Mixed}

MSG_MOOD_REQUIRED == "Mood is required"
MSG_MOOD_ENUM == "Mood must be one of: Happy, Sad, Calm, Excited, Angry, Inspired, Mixed"
MSG_URL_REQUIRED == "Image URL is required"
MSG_VALIDATION == "Art validation failed"
MSG_CAST == "Cast to string failed for path imageUrl"
FUNCTION_SOURCE == "function Object() { [native code] }"

\* req.user ? req.user.id : null  (0 stands for null)
NoUser == 0

\* (variant used to test C12: the schema without trim: true on mood and
\* prompt)
NewArtNoTrim(userId, mood, imageUrl, prompt, style, colors, collaborators) ==
    [ userId |-> userId,
      mood |-> IF mood.t = "undefined" THEN <<>> ELSE ToStr(mood),
      imageUrl |-> IF imageUrl.t = "url" THEN imageUrl.u
                   ELSE IF imageUrl.t = "function" THEN FUNCTION_SOURCE
                   ELSE "",
      castFailed |-> imageUrl.t = "object",
      prompt |-> IF prompt.t = "undefined" THEN <<>> ELSE ToStr(prompt),
      style |-> IF style.t = "undefined" THEN S_Abstract ELSE ToStr(style),
      colors |-> IF colors.t = "undefined" THEN <<>> ELSE colors.a,
      votes |-> 0,
      collaborators |-> collaborators ]

\* new Art({...}): schema casting, the trim setters and the defaults.
\* Mongoose casts a value to String with its toString(), and refuses one
\* whose toString is Object.prototype.toString (castFailed).
NewArt(userId, mood, imageUrl, prompt, style, colors, collaborators) ==
    [ userId |-> userId,
      mood |-> IF mood.t = "undefined" THEN <<>> ELSE Trim(ToStr(mood)),
      imageUrl |-> IF imageUrl.t = "url" THEN imageUrl.u
                   ELSE IF imageUrl.t = "function" THEN FUNCTION_SOURCE
                   ELSE "",
      castFailed |-> imageUrl.t = "object",
      prompt |-> IF prompt.t = "undefined" THEN <<>> ELSE Trim(ToStr(prompt)),
      style |-> IF style.t = "undefined" THEN S_Abstract ELSE ToStr(style),
      colors |-> IF colors.t = "undefined" THEN <<>> ELSE colors.a,
      votes |-> 0,
      collaborators |-> collaborators ]

\* the validators run by save(): required and enum
ValidationErrors(doc) ==
    (IF doc.mood = <<>> THEN <<MSG_MOOD_REQUIRED>>
     ELSE IF doc.mood \notin MoodEnum THEN <<MSG_MOOD_ENUM>>
     ELSE <<>>)
    \o (IF doc.castFailed THEN <<MSG_CAST>>
        ELSE IF doc.imageUrl = "" THEN <<MSG_URL_REQUIRED>> ELSE <<>>)

----------------------------------------------------------------------------
(* routes/artRoutes.js: optionalAuth *)

\* a bearer token: the user id in its payload, and what jwt.verify finds
Jwt(uid, state) == [t |-> "jwt", uid |-> uid, state |-> state]

\* (variant used to test C11: the payload of a token is trusted although
\* jwt.verify has refused the token as expired)
OptionalAuthExpired(token) ==
    IF token.t = "jwt" /\ token.state \in {"valid", "expired"} THEN token.uid ELSE NoUser

\* req.user ? req.user.id : null after optionalAuth
OptionalAuth(token) ==
    IF token.t = "jwt" /\ token.state = "valid" THEN token.uid ELSE NoUser

----------------------------------------------------------------------------
(* Requests in flight.  reqs[r] is the r-th request the server accepted;   *)
(* pc is the await at which its handler is suspended, "done" once it has   *)
(* answered (status, msg).                                                 *)

Idle == [kind |-> "idle", pc |-> "idle"]

Slots == DOMAIN reqs

\* the slot of the next request: requests are numbered in order of arrival
IsNext(r) ==
    /\ reqs[r].kind = "idle"
    /\ \A q \in Slots : q < r => reqs[q].kind # "idle"

NoneInFlight == \A r \in Slots : reqs[r].pc \in {"idle", "done"}

Count(kinds) == Cardinality({r \in Slots : reqs[r].kind \in kinds})

\* res.status(s).json(...)
Respond(req, status, msg) == [req EXCEPT !.pc = "done", !.status = status, !.msg = msg]

\* the catch block of a route around generateArtFromAPI: nothing is stored
CatchGenerate(req, msg) ==
    Respond([req EXCEPT !.gen = "threw"], 500, <<msg>>)

\* generateArtFromAPI up to its first await
StartGenerate(req, prompt) ==
    LET q == [req EXCEPT !.artPrompt = prompt]
    IN  IF InvalidPrompt(prompt) THEN CatchGenerate(q, MSG_INVALID)
        ELSE IF UseMock(env)
        THEN [q EXCEPT !.pc = "mockDelay", !.gen = "pending",
                       !.mockUrl = SelectMock(prompt.s)]
        ELSE [q EXCEPT !.pc = "axios", !.gen = "pending", !.genCalls = @ + 1]

GenRequest(kind, in, userId) ==
    [ kind |-> kind, pc |-> "start", in |-> in, userId |-> userId,
      partnerUserId |-> NoUser, artPrompt |-> Undefined, gen |-> "none",
      mockUrl |-> Undefined, imageUrl |-> Undefined, genCalls |-> 0, uploadCalls |-> 0,
      delays |-> 0, failedAt |-> "", error |-> Err(0, ""), artId |-> 0,
      status |-> 0, msg |-> <<>> ]

\* POST /api/art, lines 120-138, up to the first await of generateArtFromAPI
PostArt(r, token, mood, prompt, style, colors) ==
    /\ IsNext(r)
    /\ reqs' = [reqs EXCEPT ![r] =
          StartGenerate(
              GenRequest("art",
                  [token |-> token, mood |-> mood, prompt |-> prompt,
                   style |-> style, colors |-> colors],
                  OptionalAuth(token)),
              ComposePrompt(mood, prompt, style, colors))]
    /\ UNCHANGED <<env, users, arts>>

\* POST /api/art/collaborate, lines 232-244, up to await User.findOne
PostCollaborate(r, token, mood1, mood2, partnerEmail) ==
    /\ IsNext(r)
    /\ LET q == GenRequest("collab",
                  [token |-> token, mood1 |-> mood1, mood2 |-> mood2,
                   partnerEmail |-> partnerEmail],
                  OptionalAuth(token))
       IN  reqs' = [reqs EXCEPT ![r] =
              IF ~Truthy(mood1) \/ ~Truthy(mood2)
              THEN Respond(q, 400, <<"Both moods are required for collaboration.">>)
              ELSE IF Truthy(partnerEmail) THEN [q EXCEPT !.pc = "findPartner"]
              ELSE StartGenerate(q, CollabPrompt(mood1, mood2))]
    /\ UNCHANGED <<env, users, arts>>

\* User.findOne({ email }): the query is cast by the schema (lowercase, trim)
FindUserByEmail(email) ==
    LET key == Trim(ToLowerCase(email))
        hits == {i \in 1..Len(users) : users[i].email = key}
    IN  IF hits = {} THEN NoUser
        ELSE CHOOSE i \in hits : \A j \in hits : i <= j

\* lines 244-253: User.findOne resolves, then generateArtFromAPI starts
CollabFindPartner(r) ==
    /\ reqs[r].kind = "collab" /\ reqs[r].pc = "findPartner"
    /\ reqs' = [reqs EXCEPT ![r] =
          StartGenerate(
              [reqs[r] EXCEPT !.partnerUserId = FindUserByEmail(reqs[r].in.partnerEmail.s)],
              CollabPrompt(reqs[r].in.mood1, reqs[r].in.mood2))]
    /\ UNCHANGED <<env, users, arts>>

\* lines 46-47: the 3000 ms timer fires and the mock reference is returned
MockDelay(r) ==
    /\ reqs[r].kind \in {"art", "collab"} /\ reqs[r].pc = "mockDelay"
    /\ reqs' = [reqs EXCEPT ![r] =
          [@ EXCEPT !.pc = "save", !.gen = "returned", !.delays = @ + 1,
                    !.imageUrl = reqs[r].mockUrl]]
    /\ UNCHANGED <<env, users, arts>>

\* lines 53-78: axios.post resolves and the upload is issued
AxiosOk(r) ==
    /\ reqs[r].kind \in {"art", "collab"} /\ reqs[r].pc = "axios"
    /\ reqs' = [reqs EXCEPT ![r] =
          [@ EXCEPT !.pc = "upload", !.uploadCalls = @ + 1]]
    /\ UNCHANGED <<env, users, arts>>

\* what axios.post rejects with: an HTTP error status, or no response
AxiosErrors ==
    { Err(401, "ERR_BAD_REQUEST"), Err(429, "ERR_BAD_REQUEST"),
      Err(500, "ERR_BAD_RESPONSE"), Err(0, "ECONNREFUSED"),
      Err(0, "ENOTFOUND"), Err(0, "ETIMEDOUT") }

\* what cloudinary.uploader.upload rejects with: never an error.response
UploadErrors == { Err(0, ""), Err(0, "ECONNREFUSED") }

\* lines 83-96: axios.post or the upload rejects with error
GenerateFails(r, error) ==
    /\ reqs[r].kind \in {"art", "collab"}
    /\ \/ reqs[r].pc = "axios" /\ error \in AxiosErrors
       \/ reqs[r].pc = "upload" /\ error \in UploadErrors
    /\ reqs' = [reqs EXCEPT ![r] =
          CatchGenerate([@ EXCEPT !.failedAt = reqs[r].pc, !.error = error],
                        Classify(error))]
    /\ UNCHANGED <<env, users, arts>>

\* lines 72-81: the upload resolves and secure_url is returned
UploadOk(r) ==
    /\ reqs[r].kind \in {"art", "collab"} /\ reqs[r].pc = "upload"
    /\ reqs' = [reqs EXCEPT ![r] =
          [@ EXCEPT !.pc = "save", !.gen = "returned", !.imageUrl = Url(CLOUD_URL)]]
    /\ UNCHANGED <<env, users, arts>>

S_MixedDefault == Str(S_Mixed)

\* the document the route builds once generateArtFromAPI has returned
RouteArt(req) ==
    IF req.kind = "art"
    THEN NewArt(req.userId,
                IF Truthy(req.in.mood) THEN req.in.mood ELSE S_MixedDefault,
                req.imageUrl, req.in.prompt, req.in.style, req.in.colors, <<>>)
    ELSE NewArt(req.userId, CollabMood(req.in.mood1, req.in.mood2),
                req.imageUrl, req.artPrompt, Undefined, Undefined,
                (IF req.userId # NoUser THEN <<req.userId>> ELSE <<>>)
                \o (IF req.partnerUserId # NoUser /\ req.partnerUserId # req.userId
                    THEN <<req.partnerUserId>> ELSE <<>>))

\* (variant used to test C4: the document is inserted as soon as the
\* request is accepted, before generateArtFromAPI has returned, and
\* without validation)
SaveArtBeforeGenerate(r) ==
    /\ reqs[r].kind \in {"art", "collab"}
    /\ reqs[r].pc \in {"mockDelay", "axios", "save"}
    /\ arts' = Append(arts, [f \in DOMAIN RouteArt(reqs[r]) \ {"castFailed"} |->
                                RouteArt(reqs[r])[f]])
    /\ reqs' = [reqs EXCEPT ![r] =
          Respond([@ EXCEPT !.artId = Len(arts) + 1], 201, <<>>)]
    /\ UNCHANGED <<env, users>>

\* await newArt.save() and the response: lines 141-162 and 265-278
SaveArt(r) ==
    /\ reqs[r].kind \in {"art", "collab"} /\ reqs[r].pc = "save"
    /\ LET doc == RouteArt(reqs[r])
           errs == ValidationErrors(doc)
       IN  IF errs = <<>>
           THEN /\ arts' = Append(arts, [f \in DOMAIN doc \ {"castFailed"} |-> doc[f]])
                /\ reqs' = [reqs EXCEPT ![r] =
                      Respond([@ EXCEPT !.artId = Len(arts) + 1], 201, <<>>)]
           ELSE /\ arts' = arts
                /\ reqs' = [reqs EXCEPT ![r] =
                      IF reqs[r].kind = "art" THEN Respond(@, 400, errs)
                      ELSE Respond(@, 500, <<MSG_VALIDATION>> \o errs)]
    /\ UNCHANGED <<env, users>>

----------------------------------------------------------------------------
(* routes/artRoutes.js: POST /api/art/:id/vote *)

\* lines 188-198: Art.findById resolves; art.votes += 1 on the copy read
PostVoteFind(r, token, id) ==
    /\ IsNext(r)
    /\ LET q == [ kind |-> "vote", pc |-> "start",
                  in |-> [token |-> token, id |-> id],
                  userId |-> OptionalAuth(token), votes |-> 0,
                  status |-> 0, msg |-> <<>> ]
       IN  reqs' = [reqs EXCEPT ![r] =
              IF id \notin 1..Len(arts)
              THEN Respond(q, 404, <<"Art piece not found.">>)
              ELSE [q EXCEPT !.pc = "save", !.votes = arts[id].votes + 1]]
    /\ UNCHANGED <<env, users, arts>>

\* lines 200-201: art.save() writes the modified path, $set: { votes }
VoteSave(r) ==
    /\ reqs[r].kind = "vote" /\ reqs[r].pc = "save"
    /\ arts' = [arts EXCEPT ![reqs[r].in.id].votes = reqs[r].votes]
    /\ reqs' = [reqs EXCEPT ![r] = Respond(@, 200, <<>>)]
    /\ UNCHANGED <<env, users>>

----------------------------------------------------------------------------
(* models/User.js and routes/authRoutes.js *)

S_emoji == <<"_", "e", "m", "o", "j", "i">>
S_default_avatar == <<"d", "e", "f", "a", "u", "l", "t", "_", "a", "v", "a", "t", "a", "r">>

MSG_EXISTS == "User with this email already exists. Please use a different email or log in."
MSG_CREDENTIALS == "Invalid Credentials. Please check your email and password."
MSG_SIGNUP_ERROR == "Server error during signup. Please try again later."
MSG_LOGIN_ERROR == "Server error during login. Please try again later."
MSG_REGISTERED == "User registered successfully!"
MSG_LOGGED_IN == "Logged in successfully!"
MSG_EMAIL_REQUIRED == "Email is required"
MSG_EMAIL_MATCH == "Please enter a valid email address"
MSG_PASSWORD_MIN == "Password must be at least 6 characters long"

\* bcrypt.hash(password, salt): one-way, so that only Compare reads it
Hash(password) == [bcrypt |-> password]

\* the length of a bcrypt hash string
HashLen == 60

\* (variant used to test C10: any password verifies)
CompareAlways(password, hash) == TRUE

\* bcrypt.compare(password, hash)
Compare(password, hash) == hash = Hash(password)

\* userSchema.email.match: /.+@.+\..+/
EmailMatch(s) ==
    \E i, j \in 1..Len(s) :
        /\ 1 < i /\ s[i] = "@"
        /\ i + 1 < j /\ s[j] = "." /\ j < Len(s)

User(id, email, password, avatar) ==
    [id |-> id, email |-> email, password |-> password, avatar |-> avatar]

\* new User({ email, password, avatar }): the trim and lowercase setters
NewUser(email, password, avatar) ==
    User(Len(users) + 1, Trim(ToLowerCase(email)), password, avatar)

\* the validators run by user.save()
UserValidationErrors(doc) ==
    (IF doc.email = <<>> THEN <<MSG_EMAIL_REQUIRED>>
     ELSE IF ~EmailMatch(doc.email) THEN <<MSG_EMAIL_MATCH>>
     ELSE <<>>)
    \o (IF HashLen < 6 THEN <<MSG_PASSWORD_MIN>> ELSE <<>>)

AuthRequest(kind, in) ==
    [ kind |-> kind, pc |-> "start", in |-> in, hashed |-> Undefined,
      avatar |-> <<>>, userId |-> NoUser, token |-> Undefined,
      status |-> 0, msg |-> <<>> ]

\* POST /api/auth/signup, lines 12-28: User.findOne resolves, then the
\* password is hashed and the avatar chosen
SignupFind(r, email, password, mood) ==
    /\ IsNext(r)
    /\ LET q == AuthRequest("signup",
                    [email |-> email, password |-> password, mood |-> mood])
       IN  reqs' = [reqs EXCEPT ![r] =
              IF FindUserByEmail(email.s) # NoUser
              THEN Respond(q, 400, <<MSG_EXISTS>>)
              ELSE IF password.t # "string"
              THEN Respond(q, 500, <<MSG_SIGNUP_ERROR>>)
              ELSE [q EXCEPT !.pc = "save",
                             !.hashed = Hash(password.s),
                             !.avatar = IF Truthy(mood)
                                        THEN ToLowerCase(ToStr(mood)) \o S_emoji
                                        ELSE S_default_avatar]]
    /\ UNCHANGED <<env, users, arts>>

\* the unique index on email: the insert of a second document with the
\* same email fails with a duplicate key error
DuplicateKey(doc) == \E i \in 1..Len(users) : users[i].email = doc.email

\* lines 31-68: user.save(), then jwt.sign and the response
SignupSave(r) ==
    /\ reqs[r].kind = "signup" /\ reqs[r].pc = "save"
    /\ LET doc == NewUser(reqs[r].in.email.s, reqs[r].hashed, reqs[r].avatar)
           errs == UserValidationErrors(doc)
       IN  IF errs # <<>>
           THEN /\ users' = users
                /\ reqs' = [reqs EXCEPT ![r] = Respond(@, 400, errs)]
           ELSE IF DuplicateKey(doc)
           THEN /\ users' = users
                /\ reqs' = [reqs EXCEPT ![r] = Respond(@, 500, <<MSG_SIGNUP_ERROR>>)]
           ELSE /\ users' = Append(users, doc)
                /\ reqs' = [reqs EXCEPT ![r] =
                      Respond([@ EXCEPT !.userId = doc.id,
                                        !.token = Jwt(doc.id, "valid")],
                              201, <<MSG_REGISTERED>>)]
    /\ UNCHANGED <<env, arts>>

\* POST /api/auth/login, lines 75-115
Login(r, email, password) ==
    /\ IsNext(r)
    /\ LET q == AuthRequest("login", [email |-> email, password |-> password])
           id == FindUserByEmail(email.s)
       IN  reqs' = [reqs EXCEPT ![r] =
              IF id = NoUser THEN Respond(q, 400, <<MSG_CREDENTIALS>>)
              ELSE IF password.t # "string"
              THEN Respond(q, 500, <<MSG_LOGIN_ERROR>>)
              ELSE IF ~Compare(password.s, users[id].password)
              THEN Respond(q, 400, <<MSG_CREDENTIALS>>)
              ELSE Respond([q EXCEPT !.userId = users[id].id,
                                     !.avatar = users[id].avatar,
                                     !.token = Jwt(users[id].id, "valid")],
                           200, <<MSG_LOGGED_IN>>)]
    /\ UNCHANGED <<env, users, arts>>

----------------------------------------------------------------------------
(* Inputs *)

S_hi == <<"h", "i">>
S_sp_hi == <<" ", "h", "i">>
S_Joy == <<"J", "o", "y">>
S_red == <<"r", "e", "d">>
S_blue == <<"b", "l", "u", "e">>
S_email == <<"a", "@", "b", ".", "c">>
S_email2 == <<"x", "@", "y", ".", "z">>

Body(mood, prompt, style, colors) ==
    [mood |-> mood, prompt |-> prompt, style |-> style, colors |-> colors]

\* request bodies of POST /api/art
ArtBodies ==
    { Body(Str(S_Sad), Undefined, Undefined, Undefined),
      Body(Str(S_Happy), Str(<<>>), Str(S_Abstract), Arr(<<S_red, S_blue>>)),
      Body(Str(S_Happy), Str(S_hi), Str(S_Abstract), Arr(<<S_red>>)),
      Body(Undefined, Str(S_hi), Undefined, Arr(<<>>)),
      Body(Undefined, Undefined, Undefined, Undefined),
      Body(Undefined, Undefined, Str(S_Abstract), Undefined),
      Body(Str(<<>>), Undefined, Undefined, Undefined),
      Body(Str(<<" ">>), Undefined, Undefined, Undefined),
      Body(Num(5), Undefined, Undefined, Undefined),
      Body(Str(S_Joy), Undefined, Undefined, Undefined),
      Body(Undefined, Str(K_constructor), Undefined, Undefined),
      Body(Undefined, Str(K_proto), Str(S_Abstract), Undefined),
      Body(Str(S_Sad), Str(S_sp_hi), Str(S_Abstract), Arr(<<S_red>>)) }

\* request bodies of POST /api/art/collaborate
CollabBodies ==
    { [mood1 |-> Str(S_Happy), mood2 |-> Str(S_Sad), partnerEmail |-> Undefined],
      [mood1 |-> Str(S_Happy), mood2 |-> Str(S_Sad), partnerEmail |-> Str(S_email)],
      [mood1 |-> Str(S_Calm), mood2 |-> Str(S_Calm), partnerEmail |-> Str(S_email2)],
      [mood1 |-> Undefined, mood2 |-> Str(S_Sad), partnerEmail |-> Undefined],
      [mood1 |-> Str(S_Happy), mood2 |-> Str(<<>>), partnerEmail |-> Str(S_email)] }

\* the x-auth-token header
Tokens == { Undefined, Jwt(1, "valid") }

Present == Str(<<"v">>)

AllPresent == [k \in ConfigKeys |-> Present]

\* process.env and cloudinary.config(): complete, one value missing or
\* empty, or nothing set
Envs ==
    {AllPresent, [k \in ConfigKeys |-> Undefined]}
    \cup {[AllPresent EXCEPT ![k] = Undefined] : k \in ConfigKeys}
    \cup {[AllPresent EXCEPT !["api_key"] = Str(<<>>)]}

S_secret1 == <<"s", "e", "c", "r", "e", "t", "1">>
S_wrong == <<"w", "r", "o", "n", "g">>
S_emailCaps == <<" ", "A", "@", "b", ".", "C">>
S_emailBad == <<"a", "b", ".", "c">>

\* the user collection as one earlier signup left it
OneUser == <<User(1, S_email, Hash(S_secret1), S_default_avatar)>>

----------------------------------------------------------------------------
(* Spec: the art routes, one request after the other *)

Init ==
    /\ env \in Envs
    /\ users = OneUser
    /\ arts = <<>>
    /\ reqs = [r \in 1..MaxSeq |-> Idle]

Next ==
    \/ \E r \in Slots, b \in ArtBodies, tk \in Tokens :
          NoneInFlight /\ PostArt(r, tk, b.mood, b.prompt, b.style, b.colors)
    \/ \E r \in Slots, b \in CollabBodies, tk \in Tokens :
          NoneInFlight /\ PostCollaborate(r, tk, b.mood1, b.mood2, b.partnerEmail)
    \/ \E r \in Slots : CollabFindPartner(r)
    \/ \E r \in Slots : MockDelay(r)
    \/ \E r \in Slots : AxiosOk(r)
    \/ \E r \in Slots, e \in AxiosErrors \cup UploadErrors : GenerateFails(r, e)
    \/ \E r \in Slots : UploadOk(r)
    \/ \E r \in Slots : SaveArt(r)

Spec == Init /\ [][Next]_vars

----------------------------------------------------------------------------
(* SpecVote: generate, collaborate and vote requests running concurrently *)

ArtBodiesVote ==
    { Body(Str(S_Sad), Undefined, Undefined, Undefined),
      Body(Undefined, Undefined, Undefined, Undefined) }

CollabBodiesVote ==
    { [mood1 |-> Str(S_Happy), mood2 |-> Str(S_Sad), partnerEmail |-> Str(S_email)] }

InitVote ==
    /\ env \in {AllPresent, [k \in ConfigKeys |-> Undefined]}
    /\ users = OneUser
    /\ arts = <<>>
    /\ reqs = [r \in 1..(MaxGen + MaxVotes) |-> Idle]

NextVote ==
    \/ \E r \in Slots, b \in ArtBodiesVote :
          /\ Count({"art", "collab"}) < MaxGen
          /\ PostArt(r, Undefined, b.mood, b.prompt, b.style, b.colors)
    \/ \E r \in Slots, b \in CollabBodiesVote :
          /\ Count({"art", "collab"}) < MaxGen
          /\ PostCollaborate(r, Undefined, b.mood1, b.mood2, b.partnerEmail)
    \/ \E r \in Slots : CollabFindPartner(r)
    \/ \E r \in Slots : MockDelay(r)
    \/ \E r \in Slots : AxiosOk(r)
    \/ \E r \in Slots, e \in {Err(429, "ERR_BAD_REQUEST"), Err(0, "")} : GenerateFails(r, e)
    \/ \E r \in Slots : UploadOk(r)
    \/ \E r \in Slots : SaveArt(r)
    \/ \E r \in Slots, id \in 1..2 :
          /\ Count({"vote"}) < MaxVotes
          /\ PostVoteFind(r, Undefined, id)
    \/ \E r \in Slots : VoteSave(r)

SpecVote == InitVote /\ [][NextVote]_vars

----------------------------------------------------------------------------
(* SpecAuth: signup and login requests running concurrently *)

Emails == {S_email, S_emailCaps, S_email2, S_emailBad}

Passwords == {Str(S_secret1), Str(S_wrong), Undefined}

InitAuth ==
    /\ env = AllPresent
    /\ users = <<>>
    /\ arts = <<>>
    /\ reqs = [r \in 1..MaxAuth |-> Idle]

NextAuth ==
    \/ \E r \in Slots, e \in Emails, p \in Passwords, m \in {Undefined, Str(S_Happy)} :
          SignupFind(r, Str(e), p, m)
    \/ \E r \in Slots : SignupSave(r)
    \/ \E r \in Slots, e \in Emails, p \in Passwords : Login(r, Str(e), p)

SpecAuth == InitAuth /\ [][NextAuth]_vars

----------------------------------------------------------------------------
(* Claims *)

GenSlots == {r \in Slots : reqs[r].kind \in {"art", "collab"}}

Votes200(id) ==
    {r \in Slots : reqs[r].kind = "vote" /\ reqs[r].in.id = id
                   /\ reqs[r].pc = "done" /\ reqs[r].status = 200}

VotesPending(id) ==
    {r \in Slots : reqs[r].kind = "vote" /\ reqs[r].in.id = id
                   /\ reqs[r].pc # "done"}

\* C1: once all the vote requests on a record have completed, its stored
\* vote count is the count it was created with (0) plus the number of
\* these requests: no increment is lost, however their find-by-id and save
\* steps interleave.
C1_NoLostIncrement ==
    \A id \in 1..Len(arts) :
        VotesPending(id) = {} => arts[id].votes = Cardinality(Votes200(id))

\* C2: the stored vote counter of a record starts at 0 and no step of any
\* generate, collaborate or vote request makes it smaller.
C2_VotesNeverDecrease ==
    [][ /\ \A id \in 1..Len(arts) : arts'[id].votes >= arts[id].votes
        /\ \A id \in (Len(arts) + 1)..Len(arts') : arts'[id].votes = 0 ]_vars

\* the claims' reading of "missing": not set, or set to the empty string
Missing(v) == v = Undefined \/ v = Str(<<>>)

\* the claims' reading of a prompt generate must refuse: absent, not a
\* string, empty, or nothing but white space
Blank(p) ==
    \/ p = Undefined
    \/ p.t # "string"
    \/ \A i \in 1..Len(p.s) : p.s[i] \in WhiteSpace

Placeholders ==
    {URL_HAPPY, URL_SAD, URL_CALM, URL_EXCITED, URL_ANGRY, URL_INSPIRED,
     URL_MIXED, URL_DEFAULT}

\* C3: when one of the five configuration values is missing, a generate
\* call with a non-blank prompt issues neither the generation request nor
\* the upload, and what it returns is one of the eight placeholder
\* references, returned after the delay step.
C3_MissingConfigUsesMock ==
    \A r \in GenSlots :
        ( /\ \E k \in ConfigKeys : Missing(env[k])
          /\ reqs[r].gen # "none"
          /\ ~Blank(reqs[r].artPrompt) )
        => /\ reqs[r].genCalls = 0 /\ reqs[r].uploadCalls = 0
           /\ reqs[r].gen # "threw"
           /\ reqs[r].gen = "returned" =>
                 /\ reqs[r].delays = 1
                 /\ \E u \in Placeholders : reqs[r].imageUrl = Url(u)

\* C4: an art record is inserted only by a request whose generate call has
\* returned: a step in which generate fails leaves the stored records
\* unchanged, a failed request has stored nothing, and every stored record
\* has a non-empty imageUrl, the (string form of the) value generate
\* returned to the request that stored it.
C4_Inv ==
    /\ \A id \in 1..Len(arts) :
          /\ arts[id].imageUrl # ""
          /\ \E r \in GenSlots :
                /\ reqs[r].artId = id /\ reqs[r].gen = "returned"
                /\ reqs[r].imageUrl \in {Url(arts[id].imageUrl), ObjectFunction}
    /\ \A r \in GenSlots : reqs[r].gen # "returned" => reqs[r].artId = 0

C4_Step ==
    /\ Len(arts') # Len(arts) =>
          \E r \in GenSlots :
              /\ reqs[r].pc = "save" /\ reqs[r].gen = "returned"
              /\ reqs'[r].pc = "done" /\ reqs'[r].artId = Len(arts')
              /\ arts' = Append(arts, arts'[Len(arts')])
    /\ \A r \in Slots :
          (reqs'[r].kind \in {"art", "collab"} /\ reqs'[r].gen = "threw"
           /\ reqs[r] # reqs'[r]) => arts' = arts

Text(v) == IF v.t = "string" THEN v.s ELSE <<>>

\* the composition rules of C5, written from the claim
ClaimedPrompt(mood, prompt, style, colors) ==
    LET base == IF ~Truthy(prompt) THEN mood
                ELSE IF ~Truthy(mood) THEN prompt
                ELSE Str(mood.s \o <<",", " ">> \o prompt.s)
        st == IF Truthy(style)
              THEN <<",", " ", "i", "n", " ">> \o style.s \o <<" ", "s", "t", "y", "l", "e">>
              ELSE <<>>
        co == IF colors.t = "array" /\ colors.a # <<>>
              THEN <<",", " ", "w", "i", "t", "h", " ", "c", "o", "l", "o", "r", "s", " ">>
                   \o Join(colors.a, <<",", " ">>)
              ELSE <<>>
    IN  IF st \o co = <<>> THEN base ELSE Str(Text(base) \o st \o co)

\* C5: for every combination of mood, freeform prompt, style and colors
\* (each a string or a list of strings, or absent) the prompt POST /api/art
\* composes is the mood alone, the prompt alone or "<mood>, <prompt>",
\* followed by ", in <style> style" and ", with colors <colors>" when given.
C5_ComposedPrompt ==
    \A r \in Slots :
        (reqs[r].kind = "art" /\ reqs[r].in.mood.t # "number")
        => reqs[r].artPrompt =
              ClaimedPrompt(reqs[r].in.mood, reqs[r].in.prompt,
                            reqs[r].in.style, reqs[r].in.colors)

\* the classification of C6, written from the claim
ClaimedClass(error) ==
    CASE error.status = 401 -> MSG_AUTH
      [] error.status = 429 -> MSG_RATE
      [] error.status \notin {401, 429}
         /\ error.code \in {"ECONNREFUSED", "ENOTFOUND"} -> MSG_CONNECT
      [] OTHER -> MSG_GENERIC

\* C6: on the real path a failure of the generation call or of the upload
\* ends the request with one error, classified by the upstream status or
\* the error code, and no further generation or upload request is issued:
\* one generation request in all, and an upload only if the failure was the
\* upload's.
C6_FailureClassified ==
    \A r \in GenSlots :
        reqs[r].failedAt # "" =>
            /\ reqs[r].pc = "done" /\ reqs[r].gen = "threw"
            /\ reqs[r].status = 500
            /\ reqs[r].msg = <<ClaimedClass(reqs[r].error)>>
            /\ reqs[r].genCalls = 1
            /\ reqs[r].uploadCalls = (IF reqs[r].failedAt = "upload" THEN 1 ELSE 0)
            /\ reqs[r].delays = 0

\* the upstream answered 429 and the request ended as rate limited
C6_Witness ==
    \E r \in GenSlots :
        /\ reqs[r].failedAt = "axios" /\ reqs[r].error.status = 429
        /\ reqs[r].msg = <<MSG_RATE>> /\ reqs[r].genCalls = 1

\* C7: the mock reference is a function of the normalized key: each of the
\* 7 mood keys has its own reference, distinct from the others and from the
\* default, and every other key yields the default reference.
C7_MockSelection ==
    /\ Cardinality({e[2] : e \in mockImageUrls} \cup {URL_DEFAULT}) = 8
    /\ \A r \in GenSlots :
          reqs[r].mockUrl # Undefined =>
              LET key == cleanedPrompt(reqs[r].artPrompt.s)
              IN  reqs[r].mockUrl =
                     IF \E e \in mockImageUrls : e[1] = key
                     THEN Url((CHOOSE e \in mockImageUrls : e[1] = key)[2])
                     ELSE Url(URL_DEFAULT)

\* C8: generate refuses an absent, non-string, empty or blank prompt with
\* the invalid-prompt error before anything else happens: no delay step,
\* no generation request, no upload, whatever the configuration.
C8_InvalidPromptRejected ==
    \A r \in GenSlots :
        (reqs[r].gen # "none" /\ Blank(reqs[r].artPrompt))
        => /\ reqs[r].pc = "done" /\ reqs[r].gen = "threw"
           /\ reqs[r].status = 500 /\ reqs[r].msg = <<MSG_INVALID>>
           /\ reqs[r].delays = 0 /\ reqs[r].genCalls = 0
           /\ reqs[r].uploadCalls = 0 /\ reqs[r].mockUrl = Undefined

\* a prompt of one space was refused under a complete configuration
C8_Witness ==
    \E r \in GenSlots :
        /\ reqs[r].artPrompt = Str(<<" ">>) /\ reqs[r].msg = <<MSG_INVALID>>
        /\ \A k \in ConfigKeys : ~Missing(env[k])

\* the stored users whose email is this one (compared lowercased, trimmed)
Owners(email) == {i \in 1..Len(users) : users[i].email = Trim(ToLowerCase(email))}

\* request r answers in this step
Answers(r) == reqs[r].pc # "done" /\ reqs'[r].pc = "done"

\* C9: at most one user record exists per email; a signup answering while
\* its email already belongs to a stored user is answered 400 "already
\* exists", creates no user and issues no token; a signup answering while
\* no stored user has its email, with a valid email and password and no
\* mood, is answered 201 with a token and the avatar "default_avatar".
C9_Step ==
    \A r \in Slots :
        (Answers(r) /\ reqs'[r].kind = "signup") =>
            /\ Owners(reqs'[r].in.email.s) # {} =>
                  /\ reqs'[r].status = 400 /\ reqs'[r].msg = <<MSG_EXISTS>>
                  /\ reqs'[r].token = Undefined /\ users' = users
            /\ ( /\ Owners(reqs'[r].in.email.s) = {}
                 /\ EmailMatch(Trim(reqs'[r].in.email.s))
                 /\ reqs'[r].in.password.t = "string"
                 /\ reqs'[r].in.mood = Undefined ) =>
                  /\ reqs'[r].status = 201 /\ reqs'[r].token # Undefined
                  /\ reqs'[r].avatar = S_default_avatar
                  /\ Len(users') = Len(users) + 1

C9_SignupUnique ==
    /\ [](\A i, j \in 1..Len(users) : users[i].email = users[j].email => i = j)
    /\ [][C9_Step]_vars

\* C10: a login issues a token only when a user with the given email
\* exists and the password is the one its stored hash was made from; a
\* login with an unknown email, or with a password that is not that one,
\* is answered 400 "Invalid Credentials" without a token; no login changes
\* a stored record.
C10_Step ==
    \A r \in Slots :
        (Answers(r) /\ reqs'[r].kind = "login") =>
            LET in == reqs'[r].in
                verified == /\ in.password.t = "string"
                            /\ \E i \in Owners(in.email.s) :
                                  users[i].password.bcrypt = in.password.s
            IN  /\ reqs'[r].token # Undefined => verified
                /\ (Owners(in.email.s) = {} \/ (in.password.t = "string" /\ ~verified))
                      => /\ reqs'[r].status = 400
                         /\ reqs'[r].msg = <<MSG_CREDENTIALS>>
                         /\ reqs'[r].token = Undefined
                /\ users' = users /\ arts' = arts

C10_LoginChecked == [][C10_Step]_vars

\* a login with the e-mail of a stored user and another password than the
\* user's was answered 400
C10_Witness ==
    \E r \in Slots :
        /\ reqs[r].kind = "login" /\ reqs[r].pc = "done"
        /\ reqs[r].status = 400 /\ reqs[r].token = Undefined
        /\ \E i \in Owners(reqs[r].in.email.s) :
              /\ reqs[r].in.password.t = "string"
              /\ users[i].password.bcrypt # reqs[r].in.password.s

----------------------------------------------------------------------------
(* routes/artRoutes.js: GET /api/art/history and GET /api/art/evolution/:mood *)

RECURSIVE Reverse(_)
\* the order of sort({ createdAt: -1 }) from the order of creation
Reverse(s) == IF s = <<>> THEN <<>> ELSE Reverse(Tail(s)) \o <<Head(s)>>

RECURSIVE FindByUser(_, _)
\* Art.find({ userId }) in the order of creation: the ids of the documents
\* up to the n-th that userId owns
FindByUser(n, userId) ==
    IF n = 0 THEN <<>>
    ELSE FindByUser(n - 1, userId)
         \o (IF arts[n].userId = userId THEN <<n>> ELSE <<>>)

RECURSIVE FindByUserMood(_, _, _)
\* Art.find({ userId, mood }).sort({ createdAt: 1 }); the query casts mood
\* through the schema's trim setter
FindByUserMood(n, userId, mood) ==
    IF n = 0 THEN <<>>
    ELSE FindByUserMood(n - 1, userId, mood)
         \o (IF arts[n].userId = userId /\ arts[n].mood = Trim(mood)
             THEN <<n>> ELSE <<>>)

ReadRequest(kind, in, userId) ==
    [ kind |-> kind, pc |-> "start", in |-> in, userId |-> userId,
      body |-> <<>>, status |-> 0, msg |-> <<>> ]

\* router.get('/history'), lines 169-183
GetHistory(r, token) ==
    /\ IsNext(r)
    /\ LET q == ReadRequest("history", [token |-> token], OptionalAuth(token))
       IN  reqs' = [reqs EXCEPT ![r] =
              Respond([q EXCEPT !.body =
                          IF q.userId # NoUser
                          THEN Reverse(FindByUser(Len(arts), q.userId)) ELSE <<>>],
                      200, <<>>)]
    /\ UNCHANGED <<env, users, arts>>

\* router.get('/evolution/:mood'), lines 212-227
GetEvolution(r, token, mood) ==
    /\ IsNext(r)
    /\ LET q == ReadRequest("evolution", [token |-> token, mood |-> mood],
                            OptionalAuth(token))
       IN  reqs' = [reqs EXCEPT ![r] =
              Respond([q EXCEPT !.body =
                          IF q.userId # NoUser
                          THEN FindByUserMood(Len(arts), q.userId, mood) ELSE <<>>],
                      200, <<>>)]
    /\ UNCHANGED <<env, users, arts>>

----------------------------------------------------------------------------
(* SpecAccess: the five optional-auth endpoints with every kind of token,  *)
(* one request after the other                                             *)

\* the x-auth-token header: none, verified, expired, badly signed
TokensAccess ==
    { Undefined, Jwt(1, "valid"), Jwt(1, "expired"), Jwt(1, "invalid") }

\* one body that every validation accepts
ArtBodiesAccess == { Body(Str(S_Sad), Undefined, Undefined, Undefined) }

InitAccess ==
    /\ env \in {AllPresent, [k \in ConfigKeys |-> Undefined]}
    /\ users = OneUser
    /\ arts = <<>>
    /\ reqs = [r \in 1..MaxAccess |-> Idle]

NextAccess ==
    \/ \E r \in Slots, b \in ArtBodiesAccess, tk \in TokensAccess :
          NoneInFlight /\ PostArt(r, tk, b.mood, b.prompt, b.style, b.colors)
    \/ \E r \in Slots, b \in CollabBodiesVote, tk \in TokensAccess :
          NoneInFlight /\ PostCollaborate(r, tk, b.mood1, b.mood2, b.partnerEmail)
    \/ \E r \in Slots : CollabFindPartner(r)
    \/ \E r \in Slots : MockDelay(r)
    \/ \E r \in Slots : AxiosOk(r)
    \/ \E r \in Slots, e \in {Err(401, "ERR_BAD_REQUEST")} : GenerateFails(r, e)
    \/ \E r \in Slots : UploadOk(r)
    \/ \E r \in Slots : SaveArt(r)
    \/ \E r \in Slots, tk \in TokensAccess :
          NoneInFlight /\ PostVoteFind(r, tk, 1)
    \/ \E r \in Slots : VoteSave(r)
    \/ \E r \in Slots, tk \in TokensAccess : NoneInFlight /\ GetHistory(r, tk)
    \/ \E r \in Slots, tk \in TokensAccess :
          NoneInFlight /\ GetEvolution(r, tk, S_Sad)

SpecAccess == InitAccess /\ [][NextAccess]_vars

\* what the claims call a token that verifies
Verifies(token) == token.t = "jwt" /\ token.state = "valid"

\* C11: on the five optional-auth endpoints no token, whether missing,
\* expired or invalid, gets the request rejected: the handler runs and
\* answers once, never with 401; the request carries the identity of the
\* token exactly when the token verifies; without it the art it creates
\* has no owner, and history and evolution answer the empty list.
C11_OptionalAuth ==
    \A r \in Slots :
        reqs[r].kind \in {"art", "collab", "vote", "history", "evolution"} =>
            /\ reqs[r].pc # "start"
            /\ reqs[r].status # 401
            /\ reqs[r].pc = "done" <=> reqs[r].status # 0
            /\ reqs[r].userId =
                  (IF Verifies(reqs[r].in.token) THEN reqs[r].in.token.uid ELSE NoUser)
            /\ ~Verifies(reqs[r].in.token) =>
                  /\ reqs[r].kind \in {"art", "collab"} /\ reqs[r].artId # 0
                        => arts[reqs[r].artId].userId = NoUser
                  /\ reqs[r].kind \in {"history", "evolution"}
                        => reqs[r].status = 200 /\ reqs[r].body = <<>>

\* user 1 owns a stored record, and a history request carrying user 1's
\* expired token was answered the empty list
C11_Witness ==
    \E r \in Slots :
        /\ reqs[r].kind = "history" /\ reqs[r].pc = "done"
        /\ reqs[r].in.token = Jwt(1, "expired")
        /\ reqs[r].body = <<>> /\ reqs[r].status = 200
        /\ \E id \in 1..Len(arts) : arts[id].userId = 1

----------------------------------------------------------------------------
(* C12: what POST /api/art stores *)

\* POST /api/art requests answered 201
Created == { r \in Slots : reqs[r].kind = "art" /\ reqs[r].status = 201 }

\* C12 (as stated): for every successful POST /api/art request the record
\* stored under the id it was given has mood, prompt, style, colors and
\* owner identical to the values the request submitted.
C12_RoundTrip ==
    \A r \in Created :
        /\ reqs[r].artId \in 1..Len(arts)
        /\ LET a == arts[reqs[r].artId]
           IN  /\ reqs[r].in.mood = Str(a.mood)
               /\ reqs[r].in.prompt = Str(a.prompt)
               /\ reqs[r].in.style = Str(a.style)
               /\ reqs[r].in.colors = Arr(a.colors)
               /\ a.userId = reqs[r].userId

\* C12 (amended): for every successful POST /api/art request the record
\* stored under the id it was given has the owner of the request, the
\* submitted colors (the empty list when absent), the submitted style as
\* text ("Abstract" when absent), the submitted prompt trimmed (the empty
\* text when absent) and the submitted mood trimmed ("Mixed" when the mood
\* is absent or empty).
C12_RoundTripNormalised ==
    \A r \in Created :
        /\ reqs[r].artId \in 1..Len(arts)
        /\ LET a == arts[reqs[r].artId]
               in == reqs[r].in
           IN  /\ a.mood = IF Truthy(in.mood) THEN Trim(ToStr(in.mood)) ELSE S_Mixed
               /\ a.prompt = IF in.prompt.t = "undefined" THEN <<>>
                             ELSE Trim(ToStr(in.prompt))
               /\ a.style = IF in.style.t = "undefined" THEN S_Abstract
                            ELSE ToStr(in.style)
               /\ a.colors = IF in.colors.t = "undefined" THEN <<>> ELSE in.colors.a
               /\ a.userId = reqs[r].userId

\* a signed-in request that submitted all four fields, the prompt with a
\* leading blank, was answered 201 and its record holds the trimmed prompt
C12_Witness ==
    \E r \in Created :
        /\ reqs[r].in.mood = Str(S_Sad) /\ reqs[r].in.prompt = Str(S_sp_hi)
        /\ reqs[r].in.style = Str(S_Abstract) /\ reqs[r].in.colors = Arr(<<S_red>>)
        /\ reqs[r].in.token = Jwt(1, "valid") /\ reqs[r].userId = 1
        /\ arts[reqs[r].artId].prompt = S_hi
        /\ arts[reqs[r].artId].mood = S_Sad

----------------------------------------------------------------------------
(* C13: what POST /api/art/collaborate answers and stores *)

\* the collaborators of C13, written from the claim: the authenticated
\* caller, if any, and the partner the partner email resolves to, if any
ClaimedCollaborators(req) ==
    (IF req.userId # NoUser THEN {req.userId} ELSE {})
    \cup (IF Truthy(req.in.partnerEmail)
             /\ FindUserByEmail(req.in.partnerEmail.s) # NoUser
          THEN {FindUserByEmail(req.in.partnerEmail.s)} ELSE {})

\* C13: a collaborate request with both moods present whose image
\* resolution succeeded is answered 201 and has persisted one art record,
\* whose prompt is "Collaborative art blending <mood1> and <mood2>" and
\* whose collaborators are, without duplicates, the authenticated caller
\* and the partner resolved from the partner email; an email that resolves
\* to nobody is dropped without failing the request.
C13_CollaborateStored ==
    \A r \in Slots :
        ( /\ reqs[r].kind = "collab" /\ reqs[r].pc = "done"
          /\ Truthy(reqs[r].in.mood1) /\ Truthy(reqs[r].in.mood2)
          /\ reqs[r].gen = "returned" )
        => /\ reqs[r].status = 201
           /\ reqs[r].artId \in 1..Len(arts)
           /\ \A q \in Slots \ {r} :
                 reqs[q].kind \in {"art", "collab"} => reqs[q].artId # reqs[r].artId
           /\ LET a == arts[reqs[r].artId]
              IN  /\ Str(a.prompt) = CollabPrompt(reqs[r].in.mood1, reqs[r].in.mood2)
                  /\ {a.collaborators[i] : i \in 1..Len(a.collaborators)}
                        = ClaimedCollaborators(reqs[r])
                  /\ \A i, j \in 1..Len(a.collaborators) :
                        a.collaborators[i] = a.collaborators[j] => i = j

----------------------------------------------------------------------------
(* C14: POST /api/art without a mood and without a prompt *)

\* C14: a POST /api/art request that carries neither a mood nor a prompt
\* is rejected with the invalid-prompt error and stores no record, whatever
\* its style and colors: the prompt composed for it is blank, and generate
\* refuses it.
C14_NoMoodNoPromptRejected ==
    \A r \in Slots :
        ( /\ reqs[r].kind = "art"
          /\ ~Truthy(reqs[r].in.mood) /\ ~Truthy(reqs[r].in.prompt) )
        => /\ Blank(reqs[r].artPrompt)
           /\ reqs[r].pc = "done" /\ reqs[r].gen = "threw"
           /\ reqs[r].msg = <<MSG_INVALID>>
           /\ reqs[r].artId = 0

====
